---- MODULE Spec2Model ----
(***************************************************************************)
(* Model of alb_script/deploy.py: the template planner (plan), the         *)
(* reconciler (apply, delete) and the control plane they talk to.          *)
(*                                                                         *)
(* Strings that the program concatenates into resource names are modelled  *)
(* as sequences of one-character strings, so that f"TG{version}{stack}" is *)
(* a real concatenation and two different inputs can yield the same name.  *)
(***************************************************************************)
EXTENDS Integers, Sequences, FiniteSets, TLC

(* ------------------------------ bounds -------------------------------- *)
MaxNameLen == 2
MaxVersions == 2
MaxAttempts == 2
MaxInvocations == 2

(* ------------------------- program constants -------------------------- *)
BackendPort == 8000
ListenerPort == 80
UpdateDelay == 2
DeleteDelay == 1
\* waiter_config = {} leaves the waiter's own Delay in force; botocore's
\* stack_create_complete waiter polls every 30 seconds.
DefaultDelay == 30

Alphabet == {"a", "-"}

RECURSIVE StringsOfLen(_)
StringsOfLen(n) ==
    IF n = 0 THEN {<< >>}
    ELSE {Append(s, c) : s \in StringsOfLen(n - 1), c \in Alphabet}

Names == UNION {StringsOfLen(n) : n \in 1..MaxNameLen}

(* --------------------------- naming scheme ---------------------------- *)
\* f"ALB{stack_name}"
ALBName(stack) == <<"A", "L", "B">> \o stack

\* f"ALBListener{stack_name}"
ListenerKey(stack) ==
    <<"A", "L", "B", "L", "i", "s", "t", "e", "n", "e", "r">> \o stack

\* f"TG{version}{stack_name}"
TGKey(version, stack) == <<"T", "G">> \o version \o stack

\* the pool name without the stack identifier
TGNameNoStack(version, stack) == <<"t", "g", "-">> \o version

\* f"tg-{version}-{stack_name}"
TGName(version, stack) == <<"t", "g", "-">> \o version \o <<"-">> \o stack

VARIABLES
    \* planner
    ppc, pstack, versions, resources, target_groups, idx, find_calls,
    cf_template,
    \* naming of two independent stacks
    npc, nreq, nout,
    \* control plane: status of every environment (region, stack name)
    cp,
    \* one invocation of the command: apply or delete
    pc, verb, env, template, parameters, calls, waiter, attempts, polled,
    alb, outcome, printed, ret,
    \* history across invocations
    last, fresh, invocations

planVars == <<ppc, pstack, versions, resources, target_groups, idx,
              find_calls, cf_template>>
nameVars == <<npc, nreq, nout>>
recVars == <<cp, pc, verb, env, template, parameters, calls, waiter, attempts,
             polled, alb, outcome, printed, ret, last, fresh, invocations>>
vars == <<planVars, nameVars, recVars>>

(* ------------------------------ planner ------------------------------- *)
Weights == {0, 90}
ClusterSets == {{"c1"}, {"c2"}}
\* what find_instances can return: any list of running instance ids
DiscoveryResults == {<< >>, <<"i-aaa">>, <<"i-aaa", "i-bbb">>}
PlanStacks == {<<"a">>, <<"a", "a">>}

PlanLabels == {<<"a">>, <<"-">>, <<"a", "a">>}

VersionSpecs == [label : PlanLabels, weight : Weights, clusters : ClusterSets]

VersionLists == UNION {[1..n -> VersionSpecs] : n \in 0..MaxVersions}

\* dict assignment d[k] = v
Put(d, k, v) == [x \in (DOMAIN d) \cup {k} |-> IF x = k THEN v ELSE d[x]]

EmptyDict == [x \in {} |-> 0]

LoadBalancer(stack) ==
    [Type |-> "LoadBalancer", Name |-> ALBName(stack)]

\* a forwarding entry that loses the declared weight
ForwardEntryNoWeight(v, stack) ==
    [Ref |-> TGKey(v.label, stack), Weight |-> 0]

\* one entry of ForwardConfig.TargetGroups
ForwardEntry(v, stack) ==
    [Ref |-> TGKey(v.label, stack), Weight |-> v.weight]

Listener(stack, tgs) ==
    [Type |-> "Listener", LoadBalancerArn |-> ALBName(stack),
     Port |-> ListenerPort, TargetGroups |-> tgs]

Targets(instances) ==
    [k \in 1..Len(instances) |-> [Id |-> instances[k], Port |-> BackendPort]]

TargetGroup(v, stack, instances) ==
    [Type |-> "TargetGroup", Name |-> TGName(v.label, stack),
     Port |-> BackendPort, Targets |-> Targets(instances)]

PlanInit ==
    /\ ppc = "start"
    /\ pstack \in PlanStacks
    /\ versions \in VersionLists
    /\ resources = EmptyDict
    /\ target_groups = << >>
    /\ idx = 1
    /\ find_calls = << >>
    /\ cf_template = << >>

\* lines 98-129: the load balancer, the forwarding entries, the listener
PlanListener ==
    /\ ppc = "start"
    /\ LET tgs == [k \in 1..Len(versions) |-> ForwardEntry(versions[k], pstack)]
           r1 == Put(EmptyDict, ALBName(pstack), LoadBalancer(pstack))
       IN /\ target_groups' = tgs
          /\ resources' = Put(r1, ListenerKey(pstack), Listener(pstack, tgs))
    /\ ppc' = "pools"
    /\ UNCHANGED <<pstack, versions, idx, find_calls, cf_template>>
    /\ UNCHANGED <<nameVars, recVars>>

\* lines 132-150: one iteration of the loop over versions
PlanTargetGroup ==
    /\ ppc = "pools"
    /\ idx <= Len(versions)
    /\ \E instances \in DiscoveryResults :
         /\ find_calls' = Append(find_calls, versions[idx].clusters)
         /\ resources' = Put(resources, TGKey(versions[idx].label, pstack),
                             TargetGroup(versions[idx], pstack, instances))
    /\ idx' = idx + 1
    /\ UNCHANGED <<ppc, pstack, versions, target_groups, cf_template>>
    /\ UNCHANGED <<nameVars, recVars>>

\* lines 152-158: the template is assembled and returned
PlanReturn ==
    /\ ppc = "pools"
    /\ idx > Len(versions)
    /\ cf_template' = <<[Resources |-> resources]>>
    /\ ppc' = "done"
    /\ UNCHANGED <<pstack, versions, resources, target_groups, idx, find_calls>>
    /\ UNCHANGED <<nameVars, recVars>>

(* -------------------- names of two independent stacks ----------------- *)
NameRequests == [stack : Names, label : Names]

NamesInit ==
    /\ npc = "start"
    /\ nreq \in [1..2 -> NameRequests]
    /\ nout = << >>

DerivedNames(r) ==
    [alb |-> ALBName(r.stack),
     key |-> TGKey(r.label, r.stack),
     name |-> TGName(r.label, r.stack)]

DeriveNames ==
    /\ npc = "start"
    /\ nout' = [k \in 1..2 |-> DerivedNames(nreq[k])]
    /\ npc' = "done"
    /\ UNCHANGED nreq
    /\ UNCHANGED <<planVars, recVars>>

NamesIdle == npc = "idle" /\ nreq = << >> /\ nout = << >>
PlanIdle ==
    /\ ppc = "idle" /\ pstack = << >> /\ versions = << >>
    /\ resources = EmptyDict /\ target_groups = << >> /\ idx = 0
    /\ find_calls = << >> /\ cf_template = << >>

(* --------------------------- control plane ---------------------------- *)
Regions == {"us-west-2", "us-east-1"}
StackNames == {"prod", "dev"}
Envs == [region : Regions, name : StackNames]
\* what parse_input and plan hand to apply: a template and its parameters
Configs == {[template |-> "t1", parameters |-> "p1"],
            [template |-> "t2", parameters |-> "p2"]}

InProgress == {"CREATE_IN_PROGRESS", "UPDATE_IN_PROGRESS", "DELETE_IN_PROGRESS"}
Failed == {"ROLLBACK_COMPLETE", "UPDATE_ROLLBACK_COMPLETE", "DELETE_FAILED"}
Updatable == {"CREATE_COMPLETE", "UPDATE_COMPLETE", "UPDATE_ROLLBACK_COMPLETE"}

\* Every call can also be refused for a reason of its own (validation,
\* throttling, permissions): botocore raises ClientError.
Respond(normal) == {normal, "ClientError"}

\* client.create_stack: AlreadyExistsException when the name is in use
CreateResponses(status) ==
    IF status = "ABSENT" THEN Respond("ok")
    ELSE Respond("AlreadyExistsException")

\* client.update_stack: accepted only for a stack at rest in a usable state
UpdateResponses(status) ==
    IF status \in Updatable THEN Respond("ok") ELSE {"ClientError"}

\* client.delete_stack: accepted for any stack, and for a name that is not
\* in use (nothing happens then)
DeleteResponses(status) == Respond("ok")

\* client.describe_stacks / describe_stack_resource
DescribeResponses(status) ==
    IF status = "ABSENT" THEN {"ClientError"} ELSE Respond("ok")

\* the physical identifier of the load balancer of an environment: an ARN,
\* which names the region the load balancer lives in
PhysicalResourceId(e) == [arn_region |-> e.region, lb |-> <<"ALB", e.name>>]

DNSName(arn) == [dns_of |-> arn]

\* elbv2 describe_load_balancers asked in client_region for the given ARN
LoadBalancerResponse(client_region, arn) ==
    IF arn.arn_region = client_region THEN "ok" ELSE "LoadBalancerNotFound"

\* acceptors that take an operation still in progress for a finished one
WaiterAcceptorEager(name, status) ==
    IF status \in Failed THEN "failure" ELSE "success"

\* acceptors that never report a failure
WaiterAcceptorNoFailure(name, status) ==
    IF status \in {"CREATE_COMPLETE", "UPDATE_COMPLETE"} THEN "success"
    ELSE IF name = "stack_delete_complete" /\ status = "ABSENT" THEN "success"
    ELSE "retry"

\* the acceptors of the waiters stack_create_complete, stack_update_complete
\* and stack_delete_complete on the status describe_stacks reports
WaiterAcceptor(name, status) ==
    CASE name = "stack_create_complete" ->
           IF status = "CREATE_COMPLETE" THEN "success"
           ELSE IF status \in {"ROLLBACK_COMPLETE", "DELETE_FAILED", "ABSENT"}
                THEN "failure" ELSE "retry"
      [] name = "stack_update_complete" ->
           IF status = "UPDATE_COMPLETE" THEN "success"
           ELSE IF status \in {"UPDATE_ROLLBACK_COMPLETE", "ABSENT"}
                THEN "failure" ELSE "retry"
      [] name = "stack_delete_complete" ->
           IF status = "ABSENT" THEN "success"
           ELSE IF status \in Failed THEN "failure" ELSE "retry"

\* one entry of the log of calls of an invocation; st is the status the
\* environment had when the call reached the control plane
Call(op, region, name, arg, resp) ==
    [op |-> op, region |-> region, StackName |-> name, arg |-> arg,
     resp |-> resp, st |-> cp[env]]

\* the convergence of a submitted operation, which the program only observes
CPSucceed ==
    /\ \E e \in Envs :
         /\ cp[e] \in InProgress
         /\ cp' = [cp EXCEPT ![e] =
                     CASE cp[e] = "CREATE_IN_PROGRESS" -> "CREATE_COMPLETE"
                       [] cp[e] = "UPDATE_IN_PROGRESS" -> "UPDATE_COMPLETE"
                       [] cp[e] = "DELETE_IN_PROGRESS" -> "ABSENT"]
    /\ UNCHANGED <<pc, verb, env, template, parameters, calls, waiter, attempts,
                   polled, alb, outcome, printed, ret, last, fresh, invocations>>
    /\ UNCHANGED <<planVars, nameVars>>

CPFail ==
    /\ \E e \in Envs :
         /\ cp[e] \in InProgress
         /\ cp' = [cp EXCEPT ![e] =
                     CASE cp[e] = "CREATE_IN_PROGRESS" -> "ROLLBACK_COMPLETE"
                       [] cp[e] = "UPDATE_IN_PROGRESS" -> "UPDATE_ROLLBACK_COMPLETE"
                       [] cp[e] = "DELETE_IN_PROGRESS" -> "DELETE_FAILED"]
    /\ UNCHANGED <<pc, verb, env, template, parameters, calls, waiter, attempts,
                   polled, alb, outcome, printed, ret, last, fresh, invocations>>
    /\ UNCHANGED <<planVars, nameVars>>

(* ----------------------------- reconciler ----------------------------- *)
NoEnv == [region |-> "none", name |-> "none"]

RecInit ==
    /\ cp \in [Envs -> {"ABSENT", "CREATE_COMPLETE"}]
    /\ pc = "idle"
    /\ verb = "none"
    /\ env = NoEnv
    /\ template = "none"
    /\ parameters = "none"
    /\ calls = << >>
    /\ waiter = << >>
    /\ attempts = 0
    /\ polled = "none"
    /\ alb = << >>
    /\ outcome = "none"
    /\ printed = << >>
    /\ ret = << >>
    /\ last = [e \in Envs |-> "none"]
    /\ fresh = FALSE
    /\ invocations = 0

\* what the invocation that has just ended leaves behind for its environment
LastAfter ==
    IF pc = "done"
    THEN [last EXCEPT ![env] =
            IF verb = "delete" /\ outcome = "ok" THEN "delete_ok" ELSE "other"]
    ELSE last

\* lines 243-247: the command runs apply or delete on the parsed input
Main ==
    /\ pc \in {"idle", "done"}
    /\ invocations < MaxInvocations
    /\ invocations' = invocations + 1
    /\ \E v \in {"apply", "delete"}, e \in Envs, c \in Configs :
         /\ verb' = v
         /\ env' = e
         /\ template' = IF v = "apply" THEN c.template ELSE "none"
         /\ parameters' = IF v = "apply" THEN c.parameters ELSE "none"
         /\ pc' = IF v = "apply" THEN "create" ELSE "delete"
         /\ fresh' = (LastAfter[e] = "delete_ok")
         /\ last' = [LastAfter EXCEPT ![e] = "other"]
    /\ calls' = << >>
    /\ waiter' = << >>
    /\ attempts' = 0
    /\ polled' = "none"
    /\ alb' = << >>
    /\ outcome' = "running"
    /\ printed' = << >>
    /\ ret' = << >>
    /\ UNCHANGED cp
    /\ UNCHANGED <<planVars, nameVars>>

\* create_stack under an except clause that catches every error
ApplyCreateCatchAll ==
    /\ pc = "create"
    /\ \E resp \in CreateResponses(cp[env]) :
         /\ calls' = Append(calls, Call("create_stack", env.region, env.name,
                                        <<template, parameters>>, resp))
         /\ IF resp = "ok"
            THEN /\ cp' = [cp EXCEPT ![env] = "CREATE_IN_PROGRESS"]
                 /\ waiter' = <<[name |-> "stack_create_complete",
                                 Delay |-> DefaultDelay]>>
                 /\ pc' = "describe"
            ELSE /\ pc' = "update"
                 /\ UNCHANGED <<cp, waiter>>
    /\ UNCHANGED <<verb, env, template, parameters, attempts, polled, outcome,
                   alb, printed, ret, last, fresh, invocations>>
    /\ UNCHANGED <<planVars, nameVars>>

\* lines 172-176: create_stack, and the except clause that selects the update
ApplyCreate ==
    /\ pc = "create"
    /\ \E resp \in CreateResponses(cp[env]) :
         /\ calls' = Append(calls, Call("create_stack", env.region, env.name,
                                        <<template, parameters>>, resp))
         /\ CASE resp = "ok" ->
                   /\ cp' = [cp EXCEPT ![env] = "CREATE_IN_PROGRESS"]
                   /\ waiter' = <<[name |-> "stack_create_complete",
                                   Delay |-> DefaultDelay]>>
                   /\ pc' = "describe"
                   /\ UNCHANGED outcome
              [] resp = "AlreadyExistsException" ->
                   /\ pc' = "update"
                   /\ UNCHANGED <<cp, waiter, outcome>>
              [] OTHER ->
                   /\ pc' = "done"
                   /\ outcome' = resp
                   /\ UNCHANGED <<cp, waiter>>
    /\ UNCHANGED <<verb, env, template, parameters, attempts, polled,
                   alb, printed, ret, last, fresh, invocations>>
    /\ UNCHANGED <<planVars, nameVars>>

\* update_stack that leaves the parameters out
ApplyUpdateNoParameters ==
    /\ pc = "update"
    /\ \E resp \in UpdateResponses(cp[env]) :
         /\ calls' = Append(calls, Call("update_stack", env.region, env.name,
                                        <<template, "none">>, resp))
         /\ IF resp = "ok"
            THEN /\ cp' = [cp EXCEPT ![env] = "UPDATE_IN_PROGRESS"]
                 /\ waiter' = <<[name |-> "stack_update_complete",
                                 Delay |-> UpdateDelay]>>
                 /\ pc' = "describe"
                 /\ UNCHANGED outcome
            ELSE /\ pc' = "done"
                 /\ outcome' = resp
                 /\ UNCHANGED <<cp, waiter>>
    /\ UNCHANGED <<verb, env, template, parameters, attempts, polled,
                   alb, printed, ret, last, fresh, invocations>>
    /\ UNCHANGED <<planVars, nameVars>>

\* update_stack followed by a waiter left on its default delay
ApplyUpdateDefaultDelay ==
    /\ pc = "update"
    /\ \E resp \in UpdateResponses(cp[env]) :
         /\ calls' = Append(calls, Call("update_stack", env.region, env.name,
                                        <<template, parameters>>, resp))
         /\ IF resp = "ok"
            THEN /\ cp' = [cp EXCEPT ![env] = "UPDATE_IN_PROGRESS"]
                 /\ waiter' = <<[name |-> "stack_update_complete",
                                 Delay |-> DefaultDelay]>>
                 /\ pc' = "describe"
                 /\ UNCHANGED outcome
            ELSE /\ pc' = "done"
                 /\ outcome' = resp
                 /\ UNCHANGED <<cp, waiter>>
    /\ UNCHANGED <<verb, env, template, parameters, attempts, polled,
                   alb, printed, ret, last, fresh, invocations>>
    /\ UNCHANGED <<planVars, nameVars>>

\* lines 177-183: update_stack with the arguments of the rejected create
ApplyUpdate ==
    /\ pc = "update"
    /\ \E resp \in UpdateResponses(cp[env]) :
         /\ calls' = Append(calls, Call("update_stack", env.region, env.name,
                                        <<template, parameters>>, resp))
         /\ IF resp = "ok"
            THEN /\ cp' = [cp EXCEPT ![env] = "UPDATE_IN_PROGRESS"]
                 /\ waiter' = <<[name |-> "stack_update_complete",
                                 Delay |-> UpdateDelay]>>
                 /\ pc' = "describe"
                 /\ UNCHANGED outcome
            ELSE /\ pc' = "done"
                 /\ outcome' = resp
                 /\ UNCHANGED <<cp, waiter>>
    /\ UNCHANGED <<verb, env, template, parameters, attempts, polled,
                   alb, printed, ret, last, fresh, invocations>>
    /\ UNCHANGED <<planVars, nameVars>>

\* lines 185-188: describe_stacks for the console link
ApplyDescribe ==
    /\ pc = "describe"
    /\ \E resp \in DescribeResponses(cp[env]) :
         /\ calls' = Append(calls, Call("describe_stacks", env.region, env.name,
                                        "StackId", resp))
         /\ IF resp = "ok"
            THEN pc' = "wait" /\ UNCHANGED outcome
            ELSE pc' = "done" /\ outcome' = resp
    /\ UNCHANGED <<cp, verb, env, template, parameters, waiter, attempts, polled,
                   alb, printed, ret, last, fresh, invocations>>
    /\ UNCHANGED <<planVars, nameVars>>

\* one poll of waiter.wait: describe_stacks, then the waiter's acceptors;
\* the waiter gives up with WaiterError after its last attempt
WaitResult(status) ==
    LET r == WaiterAcceptor(waiter[1].name, status)
    IN IF r = "retry" /\ attempts + 1 >= MaxAttempts THEN "failure" ELSE r

Poll(after) ==
    LET r == WaitResult(cp[env])
    IN /\ polled' = cp[env]
       /\ attempts' = attempts + 1
       /\ calls' = Append(calls, Call("wait", env.region, env.name, waiter[1],
                                      CASE r = "success" -> "ok"
                                        [] r = "retry" -> "retry"
                                        [] OTHER -> "WaiterError"))
       /\ CASE r = "success" -> pc' = after /\ UNCHANGED outcome
            [] r = "retry" -> UNCHANGED <<pc, outcome>>
            [] OTHER -> pc' = "done" /\ outcome' = "WaiterError"

\* line 190
ApplyWait ==
    /\ pc = "wait"
    /\ Poll("resource")
    /\ UNCHANGED <<cp, verb, env, template, parameters, waiter, alb,
                   printed, ret, last, fresh, invocations>>
    /\ UNCHANGED <<planVars, nameVars>>

\* lines 192-194: the logical resource ALB<stack_name> to its physical id
ApplyResource ==
    /\ pc = "resource"
    /\ \E resp \in DescribeResponses(cp[env]) :
         /\ calls' = Append(calls, Call("describe_stack_resource", env.region,
                                        env.name, <<"ALB", env.name>>, resp))
         /\ IF resp = "ok"
            THEN /\ alb' = <<PhysicalResourceId(env)>>
                 /\ pc' = "address"
                 /\ UNCHANGED outcome
            ELSE /\ pc' = "done"
                 /\ outcome' = resp
                 /\ UNCHANGED alb
    /\ UNCHANGED <<cp, verb, env, template, parameters, waiter, attempts, polled,
                   printed, ret, last, fresh, invocations>>
    /\ UNCHANGED <<planVars, nameVars>>

\* lines 195-201: the elbv2 client is made for "us-west-2"; the DNS name is
\* printed and the function ends without a return statement
ApplyAddress ==
    /\ pc = "address"
    /\ LET resp == LoadBalancerResponse("us-west-2", alb[1])
       IN /\ calls' = Append(calls, Call("describe_load_balancers", "us-west-2",
                                         env.name, alb[1], resp))
          /\ IF resp = "ok"
             THEN /\ printed' = <<DNSName(alb[1])>>
                  /\ outcome' = "ok"
             ELSE /\ outcome' = resp
                  /\ UNCHANGED printed
    /\ pc' = "done"
    /\ UNCHANGED <<cp, verb, env, template, parameters, waiter, attempts, polled,
                   alb, ret, last, fresh, invocations>>
    /\ UNCHANGED <<planVars, nameVars>>

\* lines 211-213
DeleteStack ==
    /\ pc = "delete"
    /\ \E resp \in DeleteResponses(cp[env]) :
         /\ calls' = Append(calls, Call("delete_stack", env.region, env.name,
                                        "none", resp))
         /\ IF resp = "ok"
            THEN /\ cp' = [cp EXCEPT ![env] =
                             IF @ = "ABSENT" THEN @ ELSE "DELETE_IN_PROGRESS"]
                 /\ waiter' = <<[name |-> "stack_delete_complete",
                                 Delay |-> DeleteDelay]>>
                 /\ pc' = "deleting"
                 /\ UNCHANGED outcome
            ELSE /\ pc' = "done"
                 /\ outcome' = resp
                 /\ UNCHANGED <<cp, waiter>>
    /\ UNCHANGED <<verb, env, template, parameters, attempts, polled, alb,
                   printed, ret, last, fresh, invocations>>
    /\ UNCHANGED <<planVars, nameVars>>

\* delete that does not wait for the deletion
DeleteWaitSkipped ==
    /\ pc = "deleting"
    /\ pc' = "deleted"
    /\ UNCHANGED <<cp, verb, env, template, parameters, calls, waiter, attempts,
                   polled, alb, outcome, printed, ret, last, fresh, invocations>>
    /\ UNCHANGED <<planVars, nameVars>>

\* lines 215-216
DeleteWait ==
    /\ pc = "deleting"
    /\ Poll("deleted")
    /\ UNCHANGED <<cp, verb, env, template, parameters, waiter, alb,
                   printed, ret, last, fresh, invocations>>
    /\ UNCHANGED <<planVars, nameVars>>

\* line 217: the final print, and delete returns
DeleteReturn ==
    /\ pc = "deleted"
    /\ pc' = "done"
    /\ outcome' = "ok"
    /\ UNCHANGED <<cp, verb, env, template, parameters, calls, waiter, attempts,
                   polled, alb, printed, ret, last, fresh, invocations>>
    /\ UNCHANGED <<planVars, nameVars>>

RecIdle ==
    /\ cp = [e \in Envs |-> "ABSENT"]
    /\ pc = "off" /\ verb = "none" /\ env = NoEnv
    /\ template = "none" /\ parameters = "none"
    /\ calls = << >> /\ waiter = << >> /\ attempts = 0 /\ polled = "none"
    /\ alb = << >> /\ outcome = "none" /\ printed = << >> /\ ret = << >>
    /\ last = [e \in Envs |-> "none"] /\ fresh = FALSE /\ invocations = 0

(* --------------------------- specifications --------------------------- *)
\* the reconciler against the control plane
Init == RecInit /\ PlanIdle /\ NamesIdle
Next ==
    \/ Main
    \/ ApplyCreate
    \/ ApplyUpdate
    \/ ApplyDescribe
    \/ ApplyWait
    \/ ApplyResource
    \/ ApplyAddress
    \/ DeleteStack
    \/ DeleteWait
    \/ DeleteReturn
    \/ CPSucceed
    \/ CPFail
Spec == Init /\ [][Next]_vars

\* the planner on every input
InitPlan == PlanInit /\ NamesIdle /\ RecIdle
NextPlan == PlanListener \/ PlanTargetGroup \/ PlanReturn
SpecPlan == InitPlan /\ [][NextPlan]_vars

\* the naming scheme on every pair of requests
InitNames == NamesInit /\ PlanIdle /\ RecIdle
NextNames == DeriveNames
SpecNames == InitNames /\ [][NextNames]_vars

(* ------------------------------ properties ---------------------------- *)
CallsOf(op) == {i \in 1..Len(calls) : calls[i].op = op}

Lookups == CallsOf("describe_stack_resource") \cup CallsOf("describe_load_balancers")

\* C1: apply first issues a create call. If the environment is absent the
\* create is not rejected with AlreadyExists (it is accepted, unless the
\* control plane refuses the call for a reason of its own) and no update call
\* is issued in the invocation. If the environment exists the create is
\* rejected; on AlreadyExists apply issues exactly one update call with the
\* stack name, template and parameters of the rejected create, and
\* AlreadyExists is never the outcome of apply.
C1_CreateThenUpdateFallback ==
    verb = "apply" =>
      /\ (pc # "create") = (Cardinality(CallsOf("create_stack")) = 1)
      /\ Cardinality(CallsOf("create_stack")) <= 1
      /\ Cardinality(CallsOf("update_stack")) <= 1
      /\ outcome # "AlreadyExistsException"
      /\ calls # << >> =>
           LET c == calls[1]
           IN /\ c.op = "create_stack"
              /\ c.st = "ABSENT" =>
                   /\ c.resp \in {"ok", "ClientError"}
                   /\ CallsOf("update_stack") = {}
              /\ c.st # "ABSENT" => c.resp \in {"AlreadyExistsException", "ClientError"}
              /\ c.resp # "AlreadyExistsException" => CallsOf("update_stack") = {}
              /\ (c.resp = "AlreadyExistsException" /\ pc # "update") =>
                   /\ Len(calls) >= 2
                   /\ calls[2].op = "update_stack"
                   /\ calls[2].region = c.region
                   /\ calls[2].StackName = c.StackName
                   /\ calls[2].arg = c.arg

\* an apply that fell back to the update and ended well
C1_Witness ==
    /\ verb = "apply" /\ pc = "done" /\ outcome = "ok"
    /\ calls[1].resp = "AlreadyExistsException"
    /\ calls[2].op = "update_stack" /\ calls[2].resp = "ok"

\* C2: apply and delete do not return normally while the operation they
\* submitted is still in progress; apply looks up the load balancer only after
\* a wait that ended in success on a status at rest, and delete returns
\* normally only after its wait ended in success.
C2_Synchronous ==
    /\ (pc = "done" /\ outcome = "ok") =>
         IF verb = "apply"
         THEN cp[env] \in {"CREATE_COMPLETE", "UPDATE_COMPLETE"}
         ELSE cp[env] = "ABSENT"
    /\ \A i \in Lookups :
         \E j \in 1..(i - 1) :
           /\ calls[j].op = "wait" /\ calls[j].resp = "ok"
           /\ calls[j].st \in {"CREATE_COMPLETE", "UPDATE_COMPLETE"}
    /\ (verb = "delete" /\ (pc = "deleted" \/ (pc = "done" /\ outcome = "ok"))) =>
         /\ calls[Len(calls)].op = "wait"
         /\ calls[Len(calls)].resp = "ok"
         /\ calls[Len(calls)].st = "ABSENT"

\* a delete that returned normally after polling a deletion still in progress
C2_Witness ==
    /\ verb = "delete" /\ pc = "done" /\ outcome = "ok"
    /\ \E i \in CallsOf("wait") : calls[i].st = "DELETE_IN_PROGRESS"

\* C3: when the create or update has converged and the load balancer
\* resource has been resolved to its physical identifier, apply ends well and
\* surfaces the address of that load balancer (as its result, or in print).
C3_AddressReturned ==
    (verb = "apply" /\ pc = "done" /\ alb # << >>) =>
      /\ outcome = "ok"
      /\ \/ ret = <<DNSName(PhysicalResourceId(env))>>
         \/ printed = <<DNSName(PhysicalResourceId(env))>>

\* C4: a terminal failure seen by the wait of apply ends apply in an error:
\* the failing poll is the last call of the invocation, no load balancer
\* lookup is made and no address is reported.
C4_TerminalFailureIsFatal ==
    verb = "apply" =>
      \A i \in CallsOf("wait") :
        calls[i].st \in Failed =>
          /\ i = Len(calls)
          /\ pc = "done"
          /\ outcome = "WaiterError"
          /\ Lookups = {}
          /\ printed = << >>
          /\ ret = << >>

\* an update that rolled back while apply waited for it
C4_Witness ==
    /\ verb = "apply" /\ pc = "done"
    /\ calls[Len(calls)].op = "wait"
    /\ calls[Len(calls)].st = "UPDATE_ROLLBACK_COMPLETE"

\* C5: a create refused with anything but AlreadyExists, a refused update and
\* a refused delete end the invocation with that very error, and the refused
\* call is the last call of the invocation.
C5_ErrorsPropagate ==
    \A i \in CallsOf("create_stack") \cup CallsOf("update_stack")
               \cup CallsOf("delete_stack") :
      (/\ calls[i].resp # "ok"
       /\ ~(calls[i].op = "create_stack" /\ calls[i].resp = "AlreadyExistsException")) =>
        /\ i = Len(calls)
        /\ pc = "done"
        /\ outcome = calls[i].resp

\* the update of a stack that rolled back its creation is refused
C5_Witness ==
    /\ pc = "done" /\ outcome = "ClientError"
    /\ calls[Len(calls)].op = "update_stack"
    /\ calls[Len(calls)].st = "ROLLBACK_COMPLETE"

\* C6: an apply that follows a delete which returned normally for the same
\* environment, with no other invocation on it in between, finds the
\* environment absent: its create is not rejected with AlreadyExists and it
\* never takes the update path.
C6_DeleteThenApplyIsFresh ==
    (verb = "apply" /\ fresh) =>
      /\ pc = "create" => cp[env] = "ABSENT"
      /\ pc # "update"
      /\ CallsOf("update_stack") = {}
      /\ calls # << >> =>
           /\ calls[1].st = "ABSENT"
           /\ calls[1].resp \in {"ok", "ClientError"}

\* delete of an existing stack, then apply: the create is accepted
C6_Witness ==
    /\ verb = "apply" /\ fresh /\ pc = "wait"
    /\ calls[1].op = "create_stack" /\ calls[1].resp = "ok"

\* C9 as stated: the update path waits with a strictly longer delay than the
\* create path, which uses the waiter's default.
C9_UpdateDelayLonger ==
    (waiter # << >> /\ waiter[1].name = "stack_update_complete") =>
      waiter[1].Delay > DefaultDelay

\* C9 amended: the create path uses the waiter's default delay, the update
\* path the delay it sets explicitly, and that delay is strictly shorter.
C9_UpdateDelayShorter ==
    waiter # << >> =>
      /\ waiter[1].name = "stack_create_complete" => waiter[1].Delay = DefaultDelay
      /\ waiter[1].name = "stack_update_complete" =>
           /\ waiter[1].Delay = UpdateDelay
           /\ waiter[1].Delay < DefaultDelay

\* an apply on the update path, between two polls
C9_Witness ==
    /\ verb = "apply" /\ pc = "wait" /\ attempts = 1
    /\ waiter[1].name = "stack_update_complete"

(* the planner *)
DistinctLabels ==
    \A i, j \in 1..Len(versions) :
      i # j => versions[i].label # versions[j].label

PoolKeys(res) == {k \in DOMAIN res : res[k].Type = "TargetGroup"}

\* C7: for versions with pairwise distinct labels and any discovery results,
\* the template has exactly one target pool per version, and the listener's
\* forwarding entries correspond one to one to the versions, in input order,
\* each referencing its version's pool with its version's weight; every
\* referenced pool exists and every pool is referenced.
C7_PoolsMatchVersions ==
    (ppc = "done" /\ DistinctLabels) =>
      LET res == cf_template[1].Resources
          fwd == res[ListenerKey(pstack)].TargetGroups
      IN /\ Cardinality(PoolKeys(res)) = Len(versions)
         /\ Len(fwd) = Len(versions)
         /\ \A i \in 1..Len(fwd) :
              /\ fwd[i].Ref \in PoolKeys(res)
              /\ res[fwd[i].Ref].Name = TGName(versions[i].label, pstack)
              /\ fwd[i].Weight = versions[i].weight
         /\ \A i, j \in 1..Len(fwd) : i # j => fwd[i].Ref # fwd[j].Ref
         /\ \A k \in PoolKeys(res) : \E i \in 1..Len(fwd) : fwd[i].Ref = k

\* two versions with different weights, one of them without instances
C7_Witness ==
    /\ ppc = "done" /\ DistinctLabels /\ Len(versions) = 2
    /\ versions[1].weight # versions[2].weight
    /\ \E k \in PoolKeys(resources) : resources[k].Targets = << >>
    /\ \E k \in PoolKeys(resources) : Len(resources[k].Targets) = 2

\* C8: with a label that occurs twice, plan makes no discovery call and
\* produces no template.
C8_DuplicateLabelsRejected ==
    ~DistinctLabels => (find_calls = << >> /\ cf_template = << >>)

(* the naming scheme *)
\* C10 as stated: for two distinct stack identifiers and any labels, the
\* load balancer names, the target pool keys and the target pool names of the
\* two stacks differ.
C10_NamesNeverCollide ==
    (npc = "done" /\ nreq[1].stack # nreq[2].stack) =>
      /\ nout[1].alb # nout[2].alb
      /\ nout[1].key # nout[2].key
      /\ nout[1].name # nout[2].name

\* C10 amended: the load balancer names of two distinct stacks differ, and so
\* do the target pool keys and names when the two labels have the same length.
C10_NamesDifferForLabelsOfEqualLength ==
    (npc = "done" /\ nreq[1].stack # nreq[2].stack) =>
      /\ nout[1].alb # nout[2].alb
      /\ Len(nreq[1].label) = Len(nreq[2].label) =>
           /\ nout[1].key # nout[2].key
           /\ nout[1].name # nout[2].name

\* the same label in two stacks
C10_Witness ==
    /\ npc = "done"
    /\ nreq[1].stack # nreq[2].stack
    /\ nreq[1].label = nreq[2].label
    /\ Len(nreq[1].stack) # Len(nreq[2].stack)

====
